---- MODULE Spec2Model ----
(***************************************************************************)
(* Fianco engine (fianco_ai/src/lib.rs): move generator, make_move with    *)
(* Zobrist hashing, get_winner, evaluate_board, and the iterative          *)
(* deepening negamax query with its transposition table, repetition        *)
(* counter and wall-clock budget.                                          *)
(*                                                                         *)
(* Four specifications share the variables:                                *)
(*   PlaySpec     - a game played with get_valid_moves / make_move from a  *)
(*                  bounded family of boards (the pure functions);         *)
(*   Spec         - one query negamax(board, max_depth, player, weights,   *)
(*                  time_limit), executed step by step between clock reads;*)
(*   IdentitySpec - one root call of negamax_search with an empty table,   *)
(*                  followed by the call on the position after its move;   *)
(*   RootCallSpec - one root call of negamax_search under the clock.       *)
(***************************************************************************)
EXTENDS Integers, Sequences, FiniteSets, TLC

\* ------------------------------------------------------------ constants
BOARD_SIZE == 9
EMPTY == 0
BLACK == 1
WHITE == -1
WIN_SCORE == 1000000
LOSE_SCORE == -1000000
\* f64::INFINITY / f64::NEG_INFINITY: beyond every score, closed under negation
INFINITY == 2000000000
NEG_INFINITY == -INFINITY
\* u64
HASH_BITS == 64

\* ------------------------------------------------------------ bounds
\* pieces on the board of a root call searched on its own
MaxSearchPieces == 2
\* largest depth of a root call searched on its own
MaxSearchDepth == 4

\* pieces placed on the input board
MaxPieces == 3
\* plies played in PlaySpec
MaxPlies == 2
\* largest max_depth of a query
MaxDepth == 2

Rows == 0 .. (BOARD_SIZE - 1)

\* cells the input boards draw their pieces from
PlacementCells ==
  { <<6, 8>>, <<7, 7>>, <<7, 8>>, <<8, 6>>, <<8, 8>>, <<1, 0>>, <<0, 0>> }

\* cells the boards of the queries draw their pieces from
QueryCells == { <<6, 6>>, <<6, 8>>, <<7, 6>>, <<7, 7>>, <<7, 8>>, <<8, 8>> }

\* cells the boards of the root calls searched on their own draw their pieces from
SearchCells == { <<3, 3>>, <<3, 4>>, <<4, 4>>, <<5, 3>>, <<5, 5>> }

\* weight bundles of the queries (f64 fields holding integral values; the two
\* unstoppable-pawn weights are multiples of 2520 = lcm(1..9), so that
\* weight / (steps + 1) is exact)
SymmetricWeights ==
  [piece_value |-> 100, advancement_value |-> 10,
   unstoppable_pawn_bonus |-> 2520, opponent_unstoppable_pawn_penalty |-> -2520,
   center_control_value |-> 3, mobility_value |-> 1, edge_pawn_bonus |-> 5]

AsymmetricWeights ==
  [SymmetricWeights EXCEPT !.opponent_unstoppable_pawn_penalty = -5040]

WeightSet == { SymmetricWeights, AsymmetricWeights }

\* seeds of the random generator that fills the Zobrist table
ZobristSeeds == {1, 2}

\* seeds of the queries
QuerySeeds == {1}

NoMove == << >>

VARIABLES
  board, player, weights, zobrist_seed,        \* inputs (PlaySpec: current position)
  hash, prev_board, last_move, plies,          \* PlaySpec: incremental hash, last step
  max_depth, expired, pc, depth,               \* negamax: clock, loop
  best_move, evaluation, pv,                   \* negamax: committed result
  transposition_table, position_counts,        \* negamax: per-query tables
  stack, ret, result,                          \* negamax_search frames, value in flight
  commits, expired_depth                       \* history: committed triples, expiry

vars == << board, player, weights, zobrist_seed, hash, prev_board, last_move, plies,
           max_depth, expired, pc, depth, best_move, evaluation, pv,
           transposition_table, position_counts, stack, ret, result,
           commits, expired_depth >>

\* ------------------------------------------------------------ helpers
Abs(x) == IF x < 0 THEN -x ELSE x
Max2(a, b) == IF a >= b THEN a ELSE b
Min2(a, b) == IF a <= b THEN a ELSE b
Range(s) == { s[i] : i \in DOMAIN s }
Xor(a, b) == (a \ b) \cup (b \ a)

RECURSIVE Flatten(_)
Flatten(ss) == IF ss = << >> THEN << >> ELSE Head(ss) \o Flatten(Tail(ss))

RECURSIVE SumSeq(_)
SumSeq(s) == IF s = << >> THEN 0 ELSE Head(s) + SumSeq(Tail(s))

RECURSIVE MinSeq(_)
MinSeq(s) == IF Len(s) = 1 THEN s[1] ELSE Min2(Head(s), MinSeq(Tail(s)))

\* board.indexed_iter(): the cells in row-major order
RowMajor == [i \in 1 .. (BOARD_SIZE * BOARD_SIZE) |->
               << (i - 1) \div BOARD_SIZE, (i - 1) % BOARD_SIZE >>]

EmptyRow == [col \in Rows |-> EMPTY]

Columns == [i \in 1 .. BOARD_SIZE |-> i - 1]

\* the cells holding piece, in row-major order (rows without a piece are
\* passed over at once)
CellsOf(b, piece) ==
  LET rows == SelectSeq(Columns, LAMBDA row : b[row] # EmptyRow)
  IN  Flatten([i \in 1 .. Len(rows) |->
                 LET cols == SelectSeq(Columns, LAMBDA col : b[rows[i]][col] = piece)
                 IN  [j \in 1 .. Len(cols) |-> << rows[i], cols[j] >>]])

CountPieces(b, piece) == Len(CellsOf(b, piece))

\* ------------------------------------------------------------ Zobrist
\* rng.gen(): bit k of the value drawn for (row, col, piece) under a seed
ZobristBit(seed, row, col, piece, k) ==
  LET x == ((row * BOARD_SIZE + col) * 3 + piece) * HASH_BITS + k + 1
      y == (x * x + seed * 977) % 32749
      z == (y * 1103 + x * 7 + 12345) % 32749
  IN  (z \div 16) % 2 = 1

initialize_zobrist_table(seed) ==
  [row \in Rows |-> [col \in Rows |-> [piece \in 0 .. 2 |->
     { k \in 0 .. (HASH_BITS - 1) : ZobristBit(seed, row, col, piece, k) }]]]

ZobristTables == [seed \in ZobristSeeds |-> initialize_zobrist_table(seed)]

zobrist_table == ZobristTables[zobrist_seed]

piece_index(piece) ==
  IF piece = BLACK THEN 1 ELSE IF piece = WHITE THEN 2 ELSE 0

RECURSIVE XorCells(_, _, _)
XorCells(b, table, cells) ==
  IF cells = << >> THEN {}
  ELSE LET c == Head(cells)
           idx == piece_index(b[c[1]][c[2]])
           rest == XorCells(b, table, Tail(cells))
       IN  IF idx # 0 THEN Xor(rest, table[c[1]][c[2]][idx]) ELSE rest

compute_zobrist_hash(b, table) ==
  XorCells(b, table,
           SelectSeq(RowMajor, LAMBDA c : b[c[1]] # EmptyRow /\ b[c[1]][c[2]] # EMPTY))

\* ------------------------------------------------------------ moves
is_within_bounds(row, col) ==
  row >= 0 /\ row < BOARD_SIZE /\ col >= 0 /\ col < BOARD_SIZE

is_capture_move(b, mv, p) == Abs(mv[3] - mv[1]) = 2

directions(p) ==
  IF p = BLACK THEN << <<1, 0>>, <<0, -1>>, <<0, 1>> >>
  ELSE IF p = WHITE THEN << <<-1, 0>>, <<0, -1>>, <<0, 1>> >>
  ELSE << >>

capture_directions(p) ==
  IF p = BLACK THEN << <<1, -1>>, <<1, 1>> >>
  ELSE IF p = WHITE THEN << <<-1, -1>>, <<-1, 1>> >>
  ELSE << >>

\* << moves, capture_moves >> of the piece at pos
get_piece_moves(b, pos, p) ==
  LET row == pos[1]
      col == pos[2]
      CanCapture(d) ==
        /\ is_within_bounds(row + d[1], col + d[2])
        /\ is_within_bounds(row + 2 * d[1], col + 2 * d[2])
        /\ b[row + d[1]][col + d[2]] = -p
        /\ b[row + 2 * d[1]][col + 2 * d[2]] = EMPTY
      CanStep(d) ==
        /\ is_within_bounds(row + d[1], col + d[2])
        /\ b[row + d[1]][col + d[2]] = EMPTY
      cdirs == SelectSeq(capture_directions(p), CanCapture)
      sdirs == SelectSeq(directions(p), CanStep)
      capture_moves == [i \in 1 .. Len(cdirs) |->
                          << row, col, row + 2 * cdirs[i][1], col + 2 * cdirs[i][2] >>]
      moves == [i \in 1 .. Len(sdirs) |->
                  << row, col, row + sdirs[i][1], col + sdirs[i][2] >>]
  IN  IF capture_moves # << >> THEN << << >>, capture_moves >>
      ELSE << moves, << >> >>

\* << capture_moves, normal_moves >>
get_all_valid_moves(b, p) ==
  LET cells == CellsOf(b, p)
      per == [i \in 1 .. Len(cells) |-> get_piece_moves(b, cells[i], p)]
  IN  << Flatten([i \in 1 .. Len(cells) |-> per[i][2]]),
         Flatten([i \in 1 .. Len(cells) |-> per[i][1]]) >>

get_valid_moves_keep_steps(b, p) ==
  LET all == get_all_valid_moves(b, p)
  IN  all[1] \o all[2]

get_valid_moves(b, p) ==
  LET cells == CellsOf(b, p)
      per == [i \in 1 .. Len(cells) |-> get_piece_moves(b, cells[i], p)]
      moves == Flatten([i \in 1 .. Len(cells) |-> per[i][1]])
      capture_moves == Flatten([i \in 1 .. Len(cells) |-> per[i][2]])
  IN  IF capture_moves # << >> THEN capture_moves ELSE moves

\* ------------------------------------------------------------ make_move
\* [board, hash, captured] after mv
make_move_keep_captured(b, mv, p, h, table) ==
  LET from_piece == b[mv[1]][mv[2]]
      h1 == Xor(Xor(h, table[mv[1]][mv[2]][piece_index(from_piece)]),
                table[mv[3]][mv[4]][piece_index(from_piece)])
      b1 == [b EXCEPT ![mv[3]][mv[4]] = from_piece, ![mv[1]][mv[2]] = EMPTY]
      mid_row == (mv[1] + mv[3]) \div 2
      mid_col == (mv[2] + mv[4]) \div 2
  IN  IF Abs(mv[1] - mv[3]) = 2
      THEN [board |-> b1,
            hash |-> Xor(h1, table[mid_row][mid_col][piece_index(b1[mid_row][mid_col])]),
            captured |-> b1[mid_row][mid_col]]
      ELSE [board |-> b1, hash |-> h1, captured |-> EMPTY]

make_move_stale_hash(b, mv, p, h, table) ==
  LET from_piece == b[mv[1]][mv[2]]
      h1 == Xor(Xor(h, table[mv[1]][mv[2]][piece_index(from_piece)]),
                table[mv[3]][mv[4]][piece_index(from_piece)])
      b1 == [b EXCEPT ![mv[3]][mv[4]] = from_piece, ![mv[1]][mv[2]] = EMPTY]
      mid_row == (mv[1] + mv[3]) \div 2
      mid_col == (mv[2] + mv[4]) \div 2
  IN  IF Abs(mv[1] - mv[3]) = 2
      THEN [board |-> [b1 EXCEPT ![mid_row][mid_col] = EMPTY],
            hash |-> h1,
            captured |-> b1[mid_row][mid_col]]
      ELSE [board |-> b1, hash |-> h1, captured |-> EMPTY]

make_move(b, mv, p, h, table) ==
  LET from_piece == b[mv[1]][mv[2]]
      h1 == Xor(Xor(h, table[mv[1]][mv[2]][piece_index(from_piece)]),
                table[mv[3]][mv[4]][piece_index(from_piece)])
      b1 == [b EXCEPT ![mv[3]][mv[4]] = from_piece, ![mv[1]][mv[2]] = EMPTY]
      mid_row == (mv[1] + mv[3]) \div 2
      mid_col == (mv[2] + mv[4]) \div 2
  IN  IF Abs(mv[1] - mv[3]) = 2
      THEN [board |-> [b1 EXCEPT ![mid_row][mid_col] = EMPTY],
            hash |-> Xor(h1, table[mid_row][mid_col][piece_index(b1[mid_row][mid_col])]),
            captured |-> b1[mid_row][mid_col]]
      ELSE [board |-> b1, hash |-> h1, captured |-> EMPTY]

\* ------------------------------------------------------------ get_winner
\* only the two goal-row loops; the piece counts are left out
get_winner_rows_only(b) ==
  IF \E col \in Rows : b[BOARD_SIZE - 1][col] = BLACK THEN BLACK
  ELSE IF \E col \in Rows : b[0][col] = WHITE THEN WHITE
  ELSE EMPTY

\* Some(winner) as the side, None as EMPTY
get_winner(b) ==
  IF \E col \in Rows : b[BOARD_SIZE - 1][col] = BLACK THEN BLACK
  ELSE IF \E col \in Rows : b[0][col] = WHITE THEN WHITE
  ELSE IF CountPieces(b, BLACK) = 0 THEN WHITE
  ELSE IF CountPieces(b, WHITE) = 0 THEN BLACK
  ELSE EMPTY

\* ------------------------------------------------------------ evaluator
is_edge_square(row, col) == col = 0 \/ col = BOARD_SIZE - 1

\* pawns_by_row[row]: the columns of the opponent's pawns on that row
get_opponent_pawns_by_row(b, opponent) ==
  [row \in Rows |->
     IF b[row] = EmptyRow THEN << >>
     ELSE SelectSeq(Columns, LAMBDA col : b[row][col] = opponent)]

\* the row loop of is_unstoppable_pawn from position i of row_range:
\* TRUE when the loop ends (or breaks) without meeting a pawn that stops ours
RECURSIVE NoStopper(_, _, _, _, _, _, _)
NoStopper(row_range, i, row_pawn, col_pawn, direction, steps_to_goal, by_row) ==
  IF i > Len(row_range) THEN TRUE
  ELSE LET row == row_range[i]
           steps_to_opp == (row - row_pawn) * direction
       IN  IF steps_to_opp <= 0
           THEN NoStopper(row_range, i + 1, row_pawn, col_pawn, direction,
                          steps_to_goal, by_row)
           ELSE IF steps_to_opp > steps_to_goal THEN TRUE
           ELSE IF \E j \in 1 .. Len(by_row[row]) :
                      Abs(by_row[row][j] - col_pawn) <= steps_to_opp
                THEN FALSE
                ELSE NoStopper(row_range, i + 1, row_pawn, col_pawn, direction,
                               steps_to_goal, by_row)

\* a pawn is stopped only by an opposing pawn ahead on its own or a
\* neighbouring column
is_unstoppable_pawn_near_columns(pawn_pos, p, opponent_pawns_by_row) ==
  LET row_pawn == pawn_pos[1]
      col_pawn == pawn_pos[2]
      row_goal == IF p = BLACK THEN BOARD_SIZE - 1 ELSE 0
      direction == IF p = BLACK THEN 1 ELSE -1
  IN  IF \E row \in Rows :
           /\ (row - row_pawn) * direction >= 1
           /\ \E j \in 1 .. Len(opponent_pawns_by_row[row]) :
                Abs(opponent_pawns_by_row[row][j] - col_pawn) <= 1
      THEN << >>
      ELSE << Abs(row_goal - row_pawn) >>

\* Some(steps_to_goal) as << steps_to_goal >>, None as << >>
is_unstoppable_pawn(pawn_pos, p, opponent_pawns_by_row) ==
  LET row_pawn == pawn_pos[1]
      col_pawn == pawn_pos[2]
      row_goal == IF p = BLACK THEN BOARD_SIZE - 1 ELSE 0
      direction == IF p = BLACK THEN 1 ELSE -1
      steps_to_goal == Abs(row_goal - row_pawn)
      row_range == IF p = BLACK
                   THEN [i \in 1 .. (BOARD_SIZE - 1 - row_pawn) |-> row_pawn + i]
                   ELSE [i \in 1 .. row_pawn |-> i - 1]
  IN  IF NoStopper(row_range, 1, row_pawn, col_pawn, direction, steps_to_goal,
                   opponent_pawns_by_row)
      THEN << steps_to_goal >>
      ELSE << >>

get_unstoppable_pawns_steps(b, p) ==
  LET opponent_pawns_by_row == get_opponent_pawns_by_row(b, -p)
      cells == CellsOf(b, p)
  IN  Flatten([i \in 1 .. Len(cells) |->
                 is_unstoppable_pawn(cells[i], p, opponent_pawns_by_row)])

\* the feature loop of evaluate_board over the cells
MaterialScore(b, p, w) ==
  LET own == CellsOf(b, p)
      opp == CellsOf(b, -p)
      OwnTerm(c) ==
        w.piece_value
        + w.advancement_value * (IF p = BLACK THEN c[1] ELSE BOARD_SIZE - 1 - c[1])
        + (IF is_edge_square(c[1], c[2]) THEN w.edge_pawn_bonus ELSE 0)
      OppTerm(c) ==
        w.piece_value
        + w.advancement_value * (IF p = BLACK THEN BOARD_SIZE - 1 - c[1] ELSE c[1])
        + (IF is_edge_square(c[1], c[2]) THEN w.edge_pawn_bonus ELSE 0)
  IN  SumSeq([i \in 1 .. Len(own) |-> OwnTerm(own[i])])
      - SumSeq([i \in 1 .. Len(opp) |-> OppTerm(opp[i])])

\* the unstoppable-pawn part of evaluate_board
UnstoppableScore(b, p, w) ==
  LET ai == get_unstoppable_pawns_steps(b, p)
      opponent == get_unstoppable_pawns_steps(b, -p)
      per_pawn ==
        SumSeq([i \in 1 .. Len(ai) |-> w.unstoppable_pawn_bonus \div (ai[i] + 1)])
        + SumSeq([i \in 1 .. Len(opponent) |->
                    w.opponent_unstoppable_pawn_penalty \div (opponent[i] + 1)])
      race ==
        IF ai # << >>
        THEN IF opponent # << >>
             THEN IF MinSeq(opponent) < MinSeq(ai)
                  THEN w.opponent_unstoppable_pawn_penalty * 2
                  ELSE IF MinSeq(ai) < MinSeq(opponent)
                       THEN w.unstoppable_pawn_bonus * 2
                       ELSE 0
             ELSE 0
        ELSE IF opponent = << >> /\ ai # << >>
             THEN w.unstoppable_pawn_bonus * 2
             ELSE IF ai = << >> /\ opponent # << >>
                  THEN w.opponent_unstoppable_pawn_penalty * 2
                  ELSE 0
  IN  per_pawn + race

evaluate_board(b, p, w) ==
  IF get_winner(b) # EMPTY
  THEN IF get_winner(b) = p THEN WIN_SCORE ELSE LOSE_SCORE
  ELSE MaterialScore(b, p, w) + UnstoppableScore(b, p, w)

\* ------------------------------------------------------------ input boards
EmptyBoard == [row \in Rows |-> [col \in Rows |-> EMPTY]]

BoardOf(blacks, whites) ==
  [row \in Rows |-> [col \in Rows |->
     IF << row, col >> \in blacks THEN BLACK
     ELSE IF << row, col >> \in whites THEN WHITE ELSE EMPTY]]

\* the boards with at most n pieces, all on the given cells
Boards(cells, n) ==
  { BoardOf(bs, ws) :
      << bs, ws >> \in { x \in (SUBSET cells) \X (SUBSET cells) :
                          /\ x[1] \cap x[2] = {}
                          /\ Cardinality(x[1]) + Cardinality(x[2]) <= n } }

InitBoards == Boards(PlacementCells, MaxPieces)

QueryBoards == Boards(QueryCells, MaxPieces)

\* ------------------------------------------------------------ PlaySpec
\* the search variables, idle
SearchIdle ==
  /\ max_depth = 0 /\ expired = FALSE /\ pc = "play" /\ depth = 0
  /\ best_move = NoMove /\ evaluation = 0 /\ pv = << >>
  /\ transposition_table = << >> /\ position_counts = << >>
  /\ stack = << >> /\ ret = << >> /\ result = << >>
  /\ commits = << >> /\ expired_depth = 0

searchVars == << max_depth, expired, pc, depth, best_move, evaluation, pv,
                 transposition_table, position_counts, stack, ret, result,
                 commits, expired_depth >>

PlayInit ==
  /\ board \in InitBoards
  /\ player \in {BLACK, WHITE}
  /\ weights = SymmetricWeights
  /\ zobrist_seed \in ZobristSeeds
  /\ hash = compute_zobrist_hash(board, zobrist_table)
  /\ prev_board = board
  /\ last_move = NoMove
  /\ plies = 0
  /\ SearchIdle

\* one ply: a move of get_valid_moves applied with make_move, then the other side
PlayMove ==
  /\ plies < MaxPlies
  /\ get_winner(board) = EMPTY
  /\ LET moves == get_valid_moves(board, player)
     IN  \E i \in 1 .. Len(moves) :
           LET r == make_move(board, moves[i], player, hash, zobrist_table)
           IN  /\ board' = r.board
               /\ hash' = r.hash
               /\ prev_board' = board
               /\ last_move' = moves[i]
  /\ player' = -player
  /\ plies' = plies + 1
  /\ UNCHANGED << weights, zobrist_seed >>
  /\ UNCHANGED searchVars

PlayNext == PlayMove

PlaySpec == PlayInit /\ [][PlayNext]_vars

\* ------------------------------------------------------------ negamax_search
\* HashMap insert / get
MapPut(m, k, v) == [x \in (DOMAIN m) \cup {k} |-> IF x = k THEN v ELSE m[x]]
MapDel(m, k) == [x \in (DOMAIN m) \ {k} |-> m[x]]

\* *position_counts.entry(h).or_insert(0) += 1
CountsIncr(counts, h) ==
  MapPut(counts, h, (IF h \in DOMAIN counts THEN counts[h] ELSE 0) + 1)

\* *count -= 1 without the removal of a key whose count is zero
CountsDecrKeepZero(counts, h) == MapPut(counts, h, counts[h] - 1)

\* *count -= 1; if *count == 0 { position_counts.remove(&h) }
CountsDecr(counts, h) ==
  IF counts[h] - 1 = 0 THEN MapDel(counts, h) ELSE MapPut(counts, h, counts[h] - 1)

Frame(b, d, p, alpha, beta, h, first_move) ==
  [board |-> b, depth |-> d, player |-> p, alpha |-> alpha, beta |-> beta,
   hash |-> h, first_move |-> first_move, pc |-> "enter", alpha_orig |-> alpha,
   ordered_moves |-> << >>, idx |-> 1, max_eval |-> LOSE_SCORE,
   best_move |-> NoMove, pv_line |-> << >>]

\* move ordering: first_move, the table's best_move, captures, non-captures
OrderMoves(b, p, moves, first_move, tt, h) ==
  LET moves_set == Range(moves)
      first == IF first_move # NoMove /\ first_move \in moves_set
               THEN << first_move >> ELSE << >>
      second == IF /\ h \in DOMAIN tt
                   /\ tt[h].best_move # NoMove
                   /\ tt[h].best_move # first_move
                   /\ tt[h].best_move \in moves_set
                THEN << tt[h].best_move >> ELSE << >>
      added == Range(first \o second)
      rest == SelectSeq(moves, LAMBDA mv : mv \notin added)
      capture_moves == SelectSeq(rest, LAMBDA mv : is_capture_move(b, mv, p))
      non_capture_moves == SelectSeq(rest, LAMBDA mv : ~is_capture_move(b, mv, p))
  IN  first \o second \o capture_moves \o non_capture_moves

\* the probe ignores the depth of the stored entry
TableHitAnyDepth(tt, h, d) == h \in DOMAIN tt

\* transposition_table.get(&zobrist_hash) with entry.depth >= depth
TableHit(tt, h, d) == h \in DOMAIN tt /\ tt[h].depth >= d

\* negamax_search from its entry to the head of the move loop.
\* [returns, ret, frame, counts]: either the call returns ret, or the frame
\* enters the move loop; counts is position_counts afterwards
SearchEntry(f, tt, counts, timed_out) ==
  LET h == f.hash
      counted == CountsIncr(counts, h)
      hit == TableHit(tt, h, f.depth)
      alpha == IF hit /\ tt[h].flag = "LowerBound"
               THEN Max2(f.alpha, tt[h].value) ELSE f.alpha
      beta == IF hit /\ tt[h].flag = "UpperBound"
              THEN Min2(f.beta, tt[h].value) ELSE f.beta
      moves == get_valid_moves(f.board, f.player)
      Return(r, c) == [returns |-> TRUE, ret |-> r, frame |-> f, counts |-> c]
  IN  IF timed_out
      THEN Return(<< 0, NoMove, << >> >>, counts)
      ELSE IF counted[h] >= 3
      THEN Return(<< 0, NoMove, << >> >>, CountsDecr(counted, h))
      ELSE IF hit /\ tt[h].flag = "Exact"
      THEN Return(<< tt[h].value, tt[h].best_move, << >> >>, CountsDecr(counted, h))
      ELSE IF hit /\ alpha >= beta
      THEN Return(<< tt[h].value, tt[h].best_move, << >> >>, CountsDecr(counted, h))
      ELSE IF f.depth = 0 \/ get_winner(f.board) # EMPTY
      THEN Return(<< evaluate_board(f.board, f.player, weights), NoMove, << >> >>,
                  CountsDecr(counted, h))
      ELSE IF moves = << >>
      THEN Return(<< LOSE_SCORE, NoMove, << >> >>, CountsDecr(counted, h))
      ELSE [returns |-> FALSE, ret |-> << >>,
            frame |-> [f EXCEPT !.pc = "loop", !.alpha = alpha, !.beta = beta,
                                !.alpha_orig = alpha,
                                !.ordered_moves =
                                   OrderMoves(f.board, f.player, moves,
                                              f.first_move, tt, h),
                                !.idx = 1, !.max_eval = LOSE_SCORE,
                                !.best_move = NoMove, !.pv_line = << >>],
            counts |-> counted]

\* the flag of the entry stored for a finished move loop
StoreFlag(f) ==
  IF f.max_eval <= f.alpha_orig THEN "UpperBound"
  ELSE IF f.max_eval >= f.beta THEN "LowerBound"
  ELSE "Exact"

Pop(s) == SubSeq(s, 1, Len(s) - 1)
Top(s) == s[Len(s)]
SetTop(s, f) == [s EXCEPT ![Len(s)] = f]

\* after the move loop: store the entry, decrement the count, return
SearchExit(f) ==
  /\ transposition_table' =
       MapPut(transposition_table, f.hash,
              [depth |-> f.depth, value |-> f.max_eval, flag |-> StoreFlag(f),
               best_move |-> f.best_move])
  /\ position_counts' = CountsDecr(position_counts, f.hash)
  /\ ret' = << f.max_eval, f.best_move, f.pv_line >>
  /\ stack' = Pop(stack)

\* ------------------------------------------------------------ negamax (the query)
\* the move of the single-move fast path, or NoMove
FastPathStepsFirst(capture_moves, normal_moves) ==
  IF Len(normal_moves) = 1 THEN normal_moves[1]
  ELSE IF Len(capture_moves) = 1 THEN capture_moves[1]
  ELSE NoMove

\* the fast path of a single capture alone
FastPathCapturesOnly(capture_moves, normal_moves) ==
  IF Len(capture_moves) = 1 THEN capture_moves[1] ELSE NoMove

FastPath(capture_moves, normal_moves) ==
  IF capture_moves # << >>
  THEN IF Len(capture_moves) = 1 THEN capture_moves[1] ELSE NoMove
  ELSE IF Len(normal_moves) = 1 THEN normal_moves[1] ELSE NoMove

Finish(mv, eval, line) ==
  /\ result' = << mv, eval, line >>
  /\ pc' = "done"

inputs == << board, player, weights, zobrist_seed, hash, prev_board, last_move,
             plies, max_depth >>

Init ==
  /\ board \in QueryBoards
  /\ player \in {BLACK, WHITE}
  /\ weights \in WeightSet
  /\ zobrist_seed \in QuerySeeds
  /\ max_depth \in 0 .. MaxDepth
  /\ hash = compute_zobrist_hash(board, zobrist_table)
  /\ prev_board = board /\ last_move = NoMove /\ plies = 0
  /\ expired = FALSE /\ pc = "start" /\ depth = 0
  /\ best_move = NoMove /\ evaluation = 0 /\ pv = << >>
  /\ transposition_table = << >> /\ position_counts = << >>
  /\ stack = << >> /\ ret = << >> /\ result = << >>
  /\ commits = << >> /\ expired_depth = 0

\* the wall clock passes the budget
Tick ==
  /\ pc # "done" /\ pc # "play"
  /\ ~expired
  /\ expired' = TRUE
  /\ expired_depth' = IF pc = "search" THEN depth ELSE 0
  /\ UNCHANGED << inputs, pc, depth, best_move, evaluation, pv, transposition_table,
                  position_counts, stack, ret, result, commits >>

\* negamax up to the iterative deepening loop: the fast paths
Start ==
  /\ pc = "start"
  /\ LET all == get_all_valid_moves(board, player)
         mv == FastPath(all[1], all[2])
     IN  IF mv # NoMove
         THEN /\ Finish(mv, evaluate_board(board, player, weights), << mv >>)
              /\ depth' = depth
         ELSE IF max_depth < 1
         THEN /\ Finish(best_move, evaluation, pv)
              /\ depth' = depth
         ELSE /\ pc' = "iter" /\ depth' = 1 /\ result' = result
  /\ UNCHANGED << inputs, expired, best_move, evaluation, pv, transposition_table,
                  position_counts, stack, ret, commits, expired_depth >>

\* head of an iteration: clock check, reset of the counter, the root call
IterBegin ==
  /\ pc = "iter"
  /\ IF expired
     THEN /\ Finish(best_move, evaluation, pv)
          /\ UNCHANGED << position_counts, stack >>
     ELSE /\ position_counts' = (hash :> 1)
          /\ stack' = << Frame(board, depth, player, NEG_INFINITY, INFINITY, hash,
                               best_move) >>
          /\ pc' = "search"
          /\ result' = result
  /\ ret' = << >>
  /\ UNCHANGED << inputs, expired, depth, best_move, evaluation, pv,
                  transposition_table, commits, expired_depth >>

\* a call of negamax_search, from its entry to its return or to its move loop
SearchEnter ==
  /\ pc = "search" /\ stack # << >> /\ Top(stack).pc = "enter"
  /\ LET e == SearchEntry(Top(stack), transposition_table, position_counts, expired)
     IN  /\ position_counts' = e.counts
         /\ IF e.returns
            THEN /\ ret' = e.ret
                 /\ stack' = Pop(stack)
            ELSE /\ ret' = << >>
                 /\ stack' = SetTop(stack, e.frame)
  /\ UNCHANGED << inputs, expired, pc, depth, best_move, evaluation, pv,
                  transposition_table, result, commits, expired_depth >>

\* head of the move loop: clock check, then the next move is made and searched
LoopStep ==
  /\ pc = "search" /\ stack # << >> /\ Top(stack).pc = "loop"
  /\ LET f == Top(stack)
     IN  IF f.idx > Len(f.ordered_moves) \/ expired
         THEN SearchExit(f)
         ELSE LET mv == f.ordered_moves[f.idx]
                  m == make_move(f.board, mv, f.player, f.hash, zobrist_table)
              IN  /\ stack' = Append(SetTop(stack, [f EXCEPT !.pc = "wait"]),
                                     Frame(m.board, f.depth - 1, -f.player,
                                           -f.beta, -f.alpha, m.hash, NoMove))
                  /\ ret' = << >>
                  /\ UNCHANGED << transposition_table, position_counts >>
  /\ UNCHANGED << inputs, expired, pc, depth, best_move, evaluation, pv, result,
                  commits, expired_depth >>

\* the child's value is taken as it is
ChildEvalNotNegated(r) == r[1]

\* let eval = -eval
ChildEval(r) == -r[1]

\* the child call has returned: best so far, alpha, beta cutoff
ChildReturn ==
  /\ pc = "search" /\ stack # << >> /\ Top(stack).pc = "wait" /\ ret # << >>
  /\ LET f == Top(stack)
         mv == f.ordered_moves[f.idx]
         eval == ChildEval(ret)
         better == eval > f.max_eval
         g == [f EXCEPT !.max_eval = IF better THEN eval ELSE @,
                        !.best_move = IF better THEN mv ELSE @,
                        !.pv_line = IF better THEN << mv >> \o ret[3] ELSE @,
                        !.alpha = Max2(@, eval),
                        !.idx = @ + 1,
                        !.pc = "loop"]
     IN  IF g.alpha >= g.beta
         THEN SearchExit(g)
         ELSE /\ stack' = SetTop(stack, g)
              /\ ret' = << >>
              /\ UNCHANGED << transposition_table, position_counts >>
  /\ UNCHANGED << inputs, expired, pc, depth, best_move, evaluation, pv, result,
                  commits, expired_depth >>

\* the root call has returned and its result is committed without a look at
\* the clock
IterEndNoClockCheck ==
  /\ pc = "search" /\ stack = << >> /\ ret # << >>
  /\ IF ret[2] # NoMove
     THEN /\ evaluation' = ret[1]
          /\ best_move' = ret[2]
          /\ pv' = ret[3]
          /\ commits' = Append(commits, << ret[2], ret[1], ret[3] >>)
          /\ IF depth = max_depth
             THEN /\ Finish(ret[2], ret[1], ret[3])
                  /\ depth' = depth
             ELSE /\ pc' = "iter" /\ depth' = depth + 1 /\ result' = result
     ELSE /\ Finish(best_move, evaluation, pv)
          /\ UNCHANGED << depth, best_move, evaluation, pv, commits >>
  /\ ret' = << >>
  /\ UNCHANGED << inputs, expired, transposition_table, position_counts, stack,
                  expired_depth >>

\* the root call has returned: clock check, commit or stop
IterEnd ==
  /\ pc = "search" /\ stack = << >> /\ ret # << >>
  /\ IF expired
     THEN /\ Finish(best_move, evaluation, pv)
          /\ UNCHANGED << depth, best_move, evaluation, pv, commits >>
     ELSE IF ret[2] # NoMove
     THEN /\ evaluation' = ret[1]
          /\ best_move' = ret[2]
          /\ pv' = ret[3]
          /\ commits' = Append(commits, << ret[2], ret[1], ret[3] >>)
          /\ IF depth = max_depth
             THEN /\ Finish(ret[2], ret[1], ret[3])
                  /\ depth' = depth
             ELSE /\ pc' = "iter" /\ depth' = depth + 1 /\ result' = result
     ELSE /\ Finish(best_move, evaluation, pv)
          /\ UNCHANGED << depth, best_move, evaluation, pv, commits >>
  /\ ret' = << >>
  /\ UNCHANGED << inputs, expired, transposition_table, position_counts, stack,
                  expired_depth >>

Next ==
  \/ Tick
  \/ Start
  \/ IterBegin
  \/ SearchEnter
  \/ LoopStep
  \/ ChildReturn
  \/ IterEnd

Spec == Init /\ [][Next]_vars

\* ------------------------------------------------------------ a root call on its own
\* negamax_search(board, depth, player, -inf, +inf, ...) as the loop of negamax
\* calls it, with an empty table and no first_move; when it has returned a
\* move, negamax_search is called on the position after that move with
\* depth - 1, the other side, the full window and an empty table. The clock
\* never expires. commits keeps what the root call returned, result what the
\* second call returned.
SearchBoards == Boards(SearchCells, MaxSearchPieces)

IdentityInit ==
  /\ board \in SearchBoards
  /\ player \in {BLACK, WHITE}
  /\ weights = SymmetricWeights
  /\ zobrist_seed \in QuerySeeds
  /\ depth \in 1 .. MaxSearchDepth
  /\ max_depth = depth
  /\ hash = compute_zobrist_hash(board, zobrist_table)
  /\ prev_board = board /\ last_move = NoMove /\ plies = 0
  /\ expired = FALSE /\ pc = "search"
  /\ best_move = NoMove /\ evaluation = 0 /\ pv = << >>
  /\ transposition_table = << >>
  /\ position_counts = (hash :> 1)
  /\ stack = << Frame(board, depth, player, NEG_INFINITY, INFINITY, hash, NoMove) >>
  /\ ret = << >> /\ result = << >>
  /\ commits = << >> /\ expired_depth = 0

\* the root call has returned: the call on the position after its best move
RootCallReturn ==
  /\ pc = "search" /\ stack = << >> /\ ret # << >> /\ commits = << >>
  /\ commits' = << ret >>
  /\ IF ret[2] = NoMove
     THEN /\ pc' = "done"
          /\ UNCHANGED << stack, transposition_table, position_counts >>
     ELSE LET m == make_move(board, ret[2], player, hash, zobrist_table)
          IN  /\ stack' = << Frame(m.board, depth - 1, -player, NEG_INFINITY,
                                   INFINITY, m.hash, NoMove) >>
              /\ transposition_table' = << >>
              /\ position_counts' = CountsIncr((hash :> 1), hash)
              /\ pc' = "search"
  /\ ret' = << >>
  /\ UNCHANGED << inputs, expired, depth, best_move, evaluation, pv, result,
                  expired_depth >>

\* the call on the position after the best move has returned
ChildCallReturn ==
  /\ pc = "search" /\ stack = << >> /\ ret # << >> /\ commits # << >>
  /\ result' = ret
  /\ pc' = "done"
  /\ ret' = << >>
  /\ UNCHANGED << inputs, expired, depth, best_move, evaluation, pv,
                  transposition_table, position_counts, stack, commits,
                  expired_depth >>

IdentityNext ==
  \/ SearchEnter
  \/ LoopStep
  \/ ChildReturn
  \/ RootCallReturn
  \/ ChildCallReturn

IdentitySpec == IdentityInit /\ [][IdentityNext]_vars

\* ------------------------------------------------------------ a root call under the clock
\* the root call of IdentityInit alone, with a clock that may expire at any
\* point; result keeps what the root call returned
RootCallDone ==
  /\ pc = "search" /\ stack = << >> /\ ret # << >>
  /\ result' = ret
  /\ pc' = "done"
  /\ ret' = << >>
  /\ UNCHANGED << inputs, expired, depth, best_move, evaluation, pv,
                  transposition_table, position_counts, stack, commits,
                  expired_depth >>

RootCallNext ==
  \/ Tick
  \/ SearchEnter
  \/ LoopStep
  \/ ChildReturn
  \/ RootCallDone

RootCallSpec == IdentityInit /\ [][RootCallNext]_vars

\* ------------------------------------------------------------ claims: PlaySpec
Sides == {BLACK, WHITE}

\* the rule of the game: some piece of side s can leap forward-diagonally over
\* an adjacent opposing piece onto an empty cell
CaptureAvailable(b, s) ==
  \E row \in Rows, col \in Rows, dc \in {-1, 1} :
    LET dr == IF s = BLACK THEN 1 ELSE -1
    IN  /\ b[row][col] = s
        /\ row + 2 * dr \in Rows /\ col + 2 * dc \in Rows
        /\ b[row + dr][col + dc] = -s
        /\ b[row + 2 * dr][col + 2 * dc] = EMPTY

IsCapture(mv) == Abs(mv[3] - mv[1]) = 2

\* C1 - mandatory capture: on every board and for either side, when a capture
\* is available to the side get_valid_moves returns captures only, and it
\* returns a step only when the side has no capture at all.
C1_MandatoryCapture ==
  \A s \in Sides :
    LET moves == get_valid_moves(board, s)
    IN  /\ CaptureAvailable(board, s) =>
             /\ moves # << >>
             /\ \A i \in 1 .. Len(moves) : IsCapture(moves[i])
        /\ (\E i \in 1 .. Len(moves) : ~IsCapture(moves[i])) =>
             ~CaptureAvailable(board, s)

\* a capture was played from a board on which another piece of the mover had
\* steps, which the generator discarded
C1_Witness ==
  /\ last_move # NoMove
  /\ IsCapture(last_move)
  /\ CaptureAvailable(prev_board, -player)
  /\ get_all_valid_moves(prev_board, -player)[2] # << >>

\* C2 - legal-move soundness: every move get_valid_moves returns, for either
\* side, starts on a piece of that side and ends on an empty cell of the
\* board, and make_move leaves the mover's piece count unchanged and takes
\* exactly one opposing piece (the jumped midpoint, left Empty) when the move
\* is a capture and none when it is a step.
C2_MoveSoundness ==
  \A s \in Sides :
    LET moves == get_valid_moves(board, s)
    IN  \A i \in 1 .. Len(moves) :
          LET mv == moves[i]
              r == make_move(board, mv, s, hash, zobrist_table)
          IN  /\ mv[1] \in Rows /\ mv[2] \in Rows
              /\ mv[3] \in Rows /\ mv[4] \in Rows
              /\ board[mv[1]][mv[2]] = s
              /\ board[mv[3]][mv[4]] = EMPTY
              /\ r.board[mv[3]][mv[4]] = s
              /\ r.board[mv[1]][mv[2]] = EMPTY
              /\ CountPieces(r.board, s) = CountPieces(board, s)
              /\ IF IsCapture(mv)
                 THEN /\ CountPieces(r.board, -s) = CountPieces(board, -s) - 1
                      /\ board[(mv[1] + mv[3]) \div 2][(mv[2] + mv[4]) \div 2] = -s
                      /\ r.board[(mv[1] + mv[3]) \div 2][(mv[2] + mv[4]) \div 2] = EMPTY
                 ELSE CountPieces(r.board, -s) = CountPieces(board, -s)

\* a capture has been applied: the side now to move has lost one piece
C2_Witness ==
  /\ last_move # NoMove
  /\ IsCapture(last_move)
  /\ CountPieces(board, player) = CountPieces(prev_board, player) - 1
  /\ CountPieces(board, -player) = CountPieces(prev_board, -player)

\* C3 - hash consistency: after any sequence of moves applied with make_move
\* the incrementally updated hash is compute_zobrist_hash of the board.
C3_HashConsistency ==
  hash = compute_zobrist_hash(board, zobrist_table)

\* two plies played, the last one a capture, the hash still that of the board
C3_Witness ==
  /\ plies >= 2
  /\ IsCapture(last_move)
  /\ hash = compute_zobrist_hash(board, zobrist_table)
  /\ hash # compute_zobrist_hash(prev_board, zobrist_table)

\* ------------------------------------------------------------ claims: Spec
Done == pc = "done"

\* the root call of the current iteration has returned and negamax has not
\* yet looked at its result
RootReturned == pc = "search" /\ stack = << >> /\ ret # << >>

InitialTriple == << NoMove, 0, << >> >>

LastCommit == IF commits = << >> THEN InitialTriple ELSE commits[Len(commits)]

\* C4 - timeout returns the last completed iteration: when the clock expired
\* while iteration d was running, iteration d and later ones commit nothing
\* (exactly the d - 1 earlier iterations have committed), the committed
\* variables are those of iteration d - 1, and the query returns that triple
\* (the initial (none, 0, []) when d = 1).
C4_TimeoutReturnsLastCompleted ==
  expired_depth >= 1 =>
    /\ Len(commits) = expired_depth - 1
    /\ << best_move, evaluation, pv >> = LastCommit
    /\ Done => result = LastCommit

\* the clock expired during the second or a later iteration and the query
\* has returned the move committed before
C4_Witness ==
  /\ Done
  /\ expired_depth >= 2
  /\ result[1] # NoMove
  /\ result = commits[expired_depth - 1]

\* C5 - the returned move is legal: a move returned by the query, by a fast
\* path, after a completed iteration or after the clock expired, is one of
\* get_valid_moves(board, player), with all coordinates on the board.
C5_ReturnedMoveLegal ==
  (Done /\ result[1] # NoMove) =>
    /\ result[1] \in Range(get_valid_moves(board, player))
    /\ \A i \in 1 .. 4 : result[1][i] \in Rows

\* a query whose side has several captures (no fast path) ran out of time
\* after a committed iteration and returned a capture
C5_Witness ==
  /\ Done
  /\ expired
  /\ commits # << >>
  /\ result[1] # NoMove
  /\ CaptureAvailable(board, player)
  /\ IsCapture(result[1])

\* C6 - repetition balance: after every root call of negamax_search has
\* returned, position_counts holds no key.
C6_RepetitionBalance ==
  RootReturned => DOMAIN position_counts = {}

\* C7 - terminal position at the root: when the opponent of the side to move
\* has already won on the input board, a query with max_depth >= 1 whose
\* budget did not expire returns the score LOSE_SCORE.
C7_TerminalRootScore ==
  (Done /\ ~expired /\ max_depth >= 1 /\ get_winner(board) = -player) =>
    result[2] = LOSE_SCORE

\* C8 - no legal move at the root: when the side to move has no legal move,
\* a query with max_depth >= 1 whose budget did not expire returns no move,
\* LOSE_SCORE and an empty PV.
C8_NoLegalMoveAtRoot ==
  (Done /\ ~expired /\ max_depth >= 1 /\ get_valid_moves(board, player) = << >>) =>
    result = << NoMove, LOSE_SCORE, << >> >>

\* C9 - evaluator symmetry: on a non-terminal board, with one weights bundle
\* for both calls, evaluate_board for a side is the negation of
\* evaluate_board for the other side.
C9_EvaluatorSymmetry ==
  get_winner(board) = EMPTY =>
    evaluate_board(board, player, weights)
      = -evaluate_board(board, -player, weights)

\* C10 - the PV starts with the best move: a root call that returns a move
\* returns a PV whose first element is that move, and so does the query.
C10_PvStartsWithBestMove ==
  /\ (RootReturned /\ ret[2] # NoMove) =>
       (ret[3] # << >> /\ ret[3][1] = ret[2])
  /\ (Done /\ result[1] # NoMove) =>
       (result[3] # << >> /\ result[3][1] = result[1])

\* a query returns the move and PV of its second iteration, which probed the
\* transposition table filled by the first
C10_Witness ==
  /\ Done
  /\ Len(commits) >= 2
  /\ result[1] # NoMove
  /\ Len(result[3]) >= 2
  /\ result[3][1] = result[1]
  /\ hash \in DOMAIN transposition_table

\* ------------------------------------------------------------ claims: terminal detection
HasPiece(b, s) == \E row \in Rows, col \in Rows : b[row][col] = s
OnGoalRow(b, s) ==
  \E col \in Rows : b[IF s = BLACK THEN BOARD_SIZE - 1 ELSE 0][col] = s

\* what the rules say about the winner w of board b
WinnerByRules(b, w) ==
  IF OnGoalRow(b, BLACK) THEN w = BLACK
  ELSE IF OnGoalRow(b, WHITE) THEN w = WHITE
  ELSE IF \E s \in Sides : ~HasPiece(b, s)
  THEN w \in Sides /\ ~HasPiece(b, -w)
  ELSE w = EMPTY

\* C11 - terminal detection: get_winner is Black exactly when a Black piece
\* stands on row 8, otherwise White exactly when a White piece stands on row 0,
\* otherwise a side whose opponent has no piece left exactly when some side has
\* none, and None in every other position; on a terminal position
\* evaluate_board is WIN_SCORE for the winner and LOSE_SCORE for the other side.
C11_TerminalDetection ==
  /\ WinnerByRules(board, get_winner(board))
  /\ get_winner(board) # EMPTY =>
       \A s \in Sides :
         evaluate_board(board, s, weights) =
           IF s = get_winner(board) THEN WIN_SCORE ELSE LOSE_SCORE

\* a capture took the last Black piece: White wins without standing on row 0
C11_Witness ==
  /\ pc = "play" /\ plies >= 1 /\ IsCapture(last_move)
  /\ ~HasPiece(board, BLACK) /\ ~OnGoalRow(board, WHITE)
  /\ get_winner(board) = WHITE
  /\ evaluate_board(board, BLACK, weights) = LOSE_SCORE
  /\ evaluate_board(board, WHITE, weights) = WIN_SCORE

\* ------------------------------------------------------------ claims: the query
\* the side to move has one legal move under mandatory capture
SingleLegalMove == Len(get_valid_moves(board, player)) = 1

\* no iteration of the deepening loop has started
NoIterationRun ==
  /\ depth = 0 /\ commits = << >>
  /\ transposition_table = << >> /\ position_counts = << >>

\* C12 - single-move fast path: when the side to move has exactly one legal
\* capture, or no capture and exactly one legal step, the query returns that
\* move with score evaluate_board(board, player) and a PV of that one move,
\* without any search iteration, whatever max_depth and the clock are; in every
\* other case the query does not answer through the fast path.
C12_SingleMoveFastPath ==
  IF SingleLegalMove
  THEN /\ pc \in {"start", "done"}
       /\ NoIterationRun
       /\ Done =>
            LET mv == get_valid_moves(board, player)[1]
            IN  result = << mv, evaluate_board(board, player, weights), << mv >> >>
  ELSE Done => (depth >= 1 \/ result = InitialTriple)

\* the only capture is returned although steps exist, the clock has expired
\* and a deeper search was asked for
C12_Witness ==
  /\ Done /\ SingleLegalMove /\ expired /\ max_depth >= 2
  /\ get_all_valid_moves(board, player)[2] # << >>
  /\ IsCapture(result[1])
  /\ result[3] = << result[1] >>
  /\ result[2] = evaluate_board(board, player, weights)

\* a normal outcome of the query: a (move, score, pv) triple
NormalResult(r) == Len(r) = 3

\* C13 - non-positive depth is rejected: a query with max_depth <= 0 does not
\* return a normal (move, score, pv) result.
C13_NonPositiveDepthRejected ==
  (Done /\ max_depth <= 0) => ~NormalResult(result)

CountOf(h) == IF h \in DOMAIN position_counts THEN position_counts[h] ELSE 0

\* invocations of negamax_search on the stack that have passed their entry
\* (the increment of the counter) and whose position hash is h
EnteredFrames(h) ==
  Cardinality({ i \in 1 .. Len(stack) : stack[i].pc # "enter" /\ stack[i].hash = h })

\* hashes of the counter and of the stack
KnownHashes ==
  DOMAIN position_counts \cup { stack[i].hash : i \in 1 .. Len(stack) }

\* C15 - the repetition counter equals the path multiplicity: during a search,
\* for every hash h, position_counts[h] (0 if absent) is the number of
\* negamax_search invocations on the recursion stack, the root included, whose
\* position hash is h.
C15_CounterEqualsPathMultiplicity ==
  (pc = "search" /\ stack # << >> /\ \A i \in 1 .. Len(stack) : stack[i].pc # "enter") =>
    \A h \in KnownHashes : CountOf(h) = EnteredFrames(h)

\* invocations above the one on top of the stack whose position hash is h
AncestorsWith(h) ==
  Cardinality({ i \in 1 .. (Len(stack) - 1) : stack[i].hash = h })

\* the invocation about to run answers with the repetition draw
AnswersRepetitionDraw ==
  CountsIncr(position_counts, Top(stack).hash)[Top(stack).hash] >= 3

\* C16 - draw only on the third occurrence: an invocation of negamax_search
\* returns the repetition draw exactly when its position occurs at least twice
\* among the invocations above it on the search path; a second occurrence, a
\* first revisit of the root position included, is searched normally.
C16_DrawOnlyOnThirdOccurrence ==
  (pc = "search" /\ stack # << >> /\ Top(stack).pc = "enter" /\ ~expired) =>
    (AnswersRepetitionDraw <=> AncestorsWith(Top(stack).hash) >= 2)

\* the counter as negamax seeds it for the root call
SeedOf(h) == IF h = hash THEN 1 ELSE 0

C18_NoEntryAfterExpiry ==
  [][expired => transposition_table' = transposition_table]_vars

\* ------------------------------------------------------------ claims: the evaluator
\* the per-pawn terms of the unstoppable pawns of both sides, seen from side s
PerPawnScore(b, s, w) ==
  LET own == get_unstoppable_pawns_steps(b, s)
      opp == get_unstoppable_pawns_steps(b, -s)
  IN  SumSeq([i \in 1 .. Len(own) |-> w.unstoppable_pawn_bonus \div (own[i] + 1)])
      + SumSeq([i \in 1 .. Len(opp) |->
                  w.opponent_unstoppable_pawn_penalty \div (opp[i] + 1)])

\* C19 - race-winner bonus: on a non-terminal board where only the evaluated
\* side has unstoppable pawns, evaluate_board adds unstoppable_pawn_bonus * 2 on
\* top of the per-pawn terms; where only the opponent has some, it adds
\* opponent_unstoppable_pawn_penalty * 2.
C19_RaceWinnerBonus ==
  get_winner(board) = EMPTY =>
    \A s \in Sides :
      LET own == get_unstoppable_pawns_steps(board, s)
          opp == get_unstoppable_pawns_steps(board, -s)
          base == MaterialScore(board, s, weights) + PerPawnScore(board, s, weights)
      IN  /\ (own # << >> /\ opp = << >>) =>
               evaluate_board(board, s, weights)
                 = base + weights.unstoppable_pawn_bonus * 2
          /\ (own = << >> /\ opp # << >>) =>
               evaluate_board(board, s, weights)
                 = base + weights.opponent_unstoppable_pawn_penalty * 2

\* legal moves of side s under mandatory capture
MoveCount(b, s) == Len(get_valid_moves(b, s))

\* C20 - mobility term: on a non-terminal board the score of evaluate_board
\* includes mobility_value * (legal moves of the evaluated side - legal moves of
\* the opponent): raising mobility_value by one raises the score by that
\* difference.
C20_MobilityTerm ==
  get_winner(board) = EMPTY =>
    evaluate_board(board, player, [weights EXCEPT !.mobility_value = @ + 1])
      - evaluate_board(board, player, weights)
    = MoveCount(board, player) - MoveCount(board, -player)

\* ------------------------------------------------------------ claims: unstoppable pawns
GoalRow(s) == IF s = BLACK THEN BOARD_SIZE - 1 ELSE 0
Forward(s) == IF s = BLACK THEN 1 ELSE -1

\* the rule: an opposing pawn strictly ahead of the pawn of side s on (r, c),
\* d rows ahead and at most d columns aside
StoppedByRule(b, s, r, c) ==
  \E r2 \in Rows, c2 \in Rows :
    /\ b[r2][c2] = -s
    /\ (r2 - r) * Forward(s) >= 1
    /\ Abs(c2 - c) <= (r2 - r) * Forward(s)

\* own pawns of side s that the rule calls unstoppable with cost k
UnstoppableByRule(b, s, k) ==
  { cell \in Rows \X Rows :
      /\ b[cell[1]][cell[2]] = s
      /\ ~StoppedByRule(b, s, cell[1], cell[2])
      /\ Abs(GoalRow(s) - cell[1]) = k }

\* own pawns of side s that the rule calls unstoppable
AllUnstoppableByRule(b, s) ==
  { cell \in Rows \X Rows :
      b[cell[1]][cell[2]] = s /\ ~StoppedByRule(b, s, cell[1], cell[2]) }

Occurrences(seq, k) == Cardinality({ i \in 1 .. Len(seq) : seq[i] = k })

\* C21 - unstoppable-pawn detector: for either side and every own pawn on
\* (r, c) with s = |goal_row - r|, is_unstoppable_pawn returns Some(s) exactly
\* when no opposing pawn stands d >= 1 rows ahead with a column distance of at
\* most d, and None otherwise; get_unstoppable_pawns_steps returns the multiset
\* of these s values over all own pawns.
C21_UnstoppablePawnDetector ==
  \A s \in Sides :
    LET by_row == get_opponent_pawns_by_row(board, -s)
        steps == get_unstoppable_pawns_steps(board, s)
    IN  /\ \A r \in Rows, c \in Rows :
             board[r][c] = s =>
               is_unstoppable_pawn(<< r, c >>, s, by_row) =
                 IF StoppedByRule(board, s, r, c)
                 THEN << >> ELSE << Abs(GoalRow(s) - r) >>
        /\ Len(steps) = Cardinality(AllUnstoppableByRule(board, s))
        /\ \A k \in Range(steps) :
             Occurrences(steps, k) = Cardinality(UnstoppableByRule(board, s, k))

\* after a move, a side has a stopped pawn and an unstoppable pawn that has an
\* opposing pawn ahead of it, too far aside to stop it
C21_Witness ==
  /\ pc = "play" /\ plies >= 1
  /\ \E s \in Sides :
       /\ \E r \in Rows, c \in Rows :
            board[r][c] = s /\ StoppedByRule(board, s, r, c)
       /\ \E r \in Rows, c \in Rows :
            /\ board[r][c] = s /\ ~StoppedByRule(board, s, r, c)
            /\ \E r2 \in Rows, c2 \in Rows :
                 board[r2][c2] = -s /\ (r2 - r) * Forward(s) >= 1
       /\ Len(get_unstoppable_pawns_steps(board, s)) = 1

\* ------------------------------------------------------------ claims: the deepening loop
\* C22 - deepening runs to max_depth absent timeout: on a non-terminal board
\* where the side to move has at least two legal moves, a query whose budget
\* never expires commits every iteration 1 .. max_depth and returns the result
\* of the iteration of depth max_depth.
C22_DeepeningRunsToMaxDepth ==
  ( /\ Done /\ ~expired /\ max_depth >= 1
    /\ get_winner(board) = EMPTY
    /\ Len(get_valid_moves(board, player)) >= 2 ) =>
    /\ Len(commits) = max_depth
    /\ result = commits[max_depth]

====
